---- MODULE Spec2Model ----
(***************************************************************************)
(* Segment-by-segment condenser model                                      *)
(* (src/modules/segment_by_segment_model.py, SegmentBySegmentCondenser).   *)
(*                                                                         *)
(* The code computes in floating point; the model computes in fixed point  *)
(* with the units that the code's literals fix:                            *)
(*   temperatures            0.1 K       (0.1 -> 1, 0.2 -> 2, 2.0 -> 20,   *)
(*                                        3.0 -> 30, 5.0 -> 50)            *)
(*   enthalpies              100 J/kg    (the margin 100 -> 1)             *)
(*   heat rates Q            0.01 W                                        *)
(*   coefficients h, U       10 W/m2.K                                     *)
(*   areas                   0.01 m2                                       *)
(*   refrigerant mass flow   0.1 g/s                                       *)
(*   water capacity rate     0.1 W/K                                       *)
(*   specific heats, h_fg    kJ/kg.K, kJ/kg (as inputs["ref_props"] and    *)
(*                           the property lookups give them)               *)
(*   diameters, tube length  mm                                            *)
(*   resistances             1e-4 m2.K/W                                   *)
(* so that U*A*LMTD, Q/m_dot_ref, Q/(m_dot_ref*cp) and Q/C_water need no   *)
(* conversion factor.  A quotient is rounded down.  Lengths along the tube *)
(* are kept exactly, as numerators over 2*n_segments.                      *)
(***************************************************************************)
EXTENDS Integers, Sequences, FiniteSets, TLC

VARIABLES
    n_segments,         \* self.n_segments
    self_segments,      \* self.segments
    self_zone_boundaries, \* self.zone_boundaries
    inputs,             \* the inputs dictionary of the run
    props,              \* what the property and correlation methods return
    pc,                 \* "march", "post", "returned", "raised"
    i,                  \* loop variable of the segment loop
    T_ref, T_water, h_ref, Q_cumulative,
    current_zone, zone_start_indices,
    segments_data,      \* the list of segment dictionaries
    results,            \* the returned dictionary (None before the return)
    error,              \* the exception that ended the run (None if none)
    design_step,        \* st.session_state.design_step of the caller
    segment_results,    \* st.session_state.segment_results of the caller
    previous,           \* inputs and results of the last run that returned
                        \* before the current one (None if none)
    tube_sheet,         \* st.session_state.tube_sheet, an InteractiveTubeSheet
    sheet_fig,          \* what the last draw_tube_sheet_interactive gave
    password_correct,   \* st.session_state["password_correct"] (None: absent)
    password,           \* st.session_state["password"] (None: absent)
    submissions,        \* the texts committed in the password field so far
    rendered,           \* what the last script run of app.py showed
    app_mode,           \* value of the sidebar selectbox ("None": not shown)
    condenser_mode,     \* st.session_state.condenser_mode ("None": absent)
    zone_requirements,  \* st.session_state.zone_requirements (None: absent)
    row_allocation,     \* st.session_state.row_allocation (None: absent)
    dx_results,         \* st.session_state.dx_results (None: absent)
    dx_widgets,         \* values of the four number inputs of DX step 2
    dx_message,         \* the message the last button handler showed
    wizard_inputs,      \* st.session_state.inputs of the integrated designer
    tema_type,          \* st.session_state.tema_type
    enable_zoned,       \* st.session_state.enable_zoned
    water_inlet_pos,    \* st.session_state.water_inlet_pos
    water_outlet_pos,   \* st.session_state.water_outlet_pos
    session_tube_zones, \* st.session_state.tube_zones
    wizard_error,       \* the exception that ended the last script run
    globals_bound       \* whether the names the wizard module uses without
                        \* importing them are bound where it runs

sheet_vars == <<tube_sheet, sheet_fig>>

auth_vars == <<password_correct, password, submissions, rendered>>

dx_vars == <<app_mode, condenser_mode, zone_requirements, row_allocation,
             dx_results, dx_widgets, dx_message>>

wizard_vars == <<wizard_inputs, enable_zoned, water_inlet_pos,
                 water_outlet_pos, session_tube_zones, wizard_error,
                 globals_bound>>

ui_vars == <<sheet_vars, auth_vars, dx_vars, wizard_vars, tema_type>>

march_vars == <<n_segments, self_segments, self_zone_boundaries, inputs, props,
                pc, i, T_ref, T_water, h_ref, Q_cumulative, current_zone,
                zone_start_indices, segments_data, results, error>>

vars == <<n_segments, self_segments, self_zone_boundaries, inputs, props, pc, i,
          T_ref, T_water, h_ref, Q_cumulative, current_zone,
          zone_start_indices, segments_data, results, error,
          design_step, segment_results, previous, ui_vars>>

caller_vars == <<design_step, segment_results, previous>>

(***************************************************************************)
(* Bounds of the model.                                                    *)
(***************************************************************************)
MaxSegments == 4
MaxTubes == 2

(***************************************************************************)
(* Literals of the code, in the model's units.                             *)
(***************************************************************************)
SuperheatMargin == 1
EnthalpyMargin == 1
dT_ref_estimate == 20
dT_water_estimate == 2
LMTD_Fallback == 50
TwoPhaseCp == 10000000
AdequacyPercent == 95
PinchApproach == 30
SevereDeficitPercent == 50
ModerateDeficitPercent == 20
NoAreaRatio == 999
LengthFactorTenths == 11
CoolerFactorTenths == 12

None == << >>
Some(v) == <<v>>

\* a session in which no tube sheet page has run
SheetIdle ==
    /\ tube_sheet = None
    /\ sheet_fig = None

\* a session in which app.py has not run
AuthIdle ==
    /\ password_correct = None
    /\ password = None
    /\ submissions = << >>
    /\ rendered = "nothing"

\* a session in which the professional designer has not run
DxIdle ==
    /\ app_mode = "None"
    /\ condenser_mode = "None"
    /\ zone_requirements = None
    /\ row_allocation = None
    /\ dx_results = None
    /\ dx_widgets = None
    /\ dx_message = ""

\* a session in which the integrated designer has not run
WizardIdle ==
    /\ wizard_inputs = None
    /\ tema_type = "None"
    /\ enable_zoned = FALSE
    /\ water_inlet_pos = None
    /\ water_outlet_pos = None
    /\ session_tube_zones = None
    /\ wizard_error = None
    /\ globals_bound = FALSE

UiIdle == SheetIdle /\ AuthIdle /\ DxIdle /\ WizardIdle

Max(a, b) == IF a >= b THEN a ELSE b
Min(a, b) == IF a <= b THEN a ELSE b
Abs(a) == IF a >= 0 THEN a ELSE -a

RECURSIVE ISqrtIn(_, _, _)
ISqrtIn(x, lo, hi) ==
    IF lo >= hi THEN lo
    ELSE LET mid == (lo + hi + 1) \div 2
         IN  IF mid * mid <= x THEN ISqrtIn(x, mid, hi)
             ELSE ISqrtIn(x, lo, mid - 1)

\* largest r with r*r <= x
ISqrt(x) == ISqrtIn(x, 0, Min(x, 46340))

(***************************************************************************)
(* The property and correlation methods of the class are placeholders      *)
(* ("use your existing implementation"); what they return is drawn in Init *)
(* and kept in props: one value per phase for a run.                       *)
(***************************************************************************)
get_enthalpy(pr, phase) ==
    IF phase = "vapor" THEN pr.h_vapor_in ELSE pr.h_liquid_sat

get_refrigerant_properties(pr, phase) ==
    IF phase = "vapor" THEN [cp_vapor |-> pr.cp_vapor]
    ELSE [cp_liquid |-> pr.cp_liquid]

calculate_single_phase_htc_local(pr, phase) ==
    IF phase = "superheat" THEN pr.htc_vapor ELSE pr.htc_liquid

calculate_condensation_htc_local(pr) == pr.htc_cond

calculate_shell_side_htc_local(pr) == pr.h_shell

(***************************************************************************)
(* calculate_U_local.  math.log(od/id) is evaluated as 2(od-id)/(od+id);   *)
(* the sum of resistances is taken over the common denominator             *)
(* h_tube*h_shell*tube_id*1000.                                            *)
(***************************************************************************)
R_wall(tube_od, tube_id, k) ==
    (10 * tube_od * (tube_od - tube_id)) \div (k * (tube_od + tube_id))

calculate_U_local(h_tube, h_shell, tube_od, tube_id, k, R_foul_t, R_foul_s) ==
    (h_tube * h_shell * tube_id * 1000) \div
        ( tube_id * h_shell * 1000
        + tube_od * h_tube * 1000
        + (R_wall(tube_od, tube_id, k) + R_foul_t) * h_tube * h_shell * tube_id
        + tube_od * R_foul_s * h_tube * h_shell )

(***************************************************************************)
(* STEP 1: phase and quality from the current refrigerant state.           *)
(***************************************************************************)
Phases == <<"superheat", "two_phase", "subcooled">>

DeterminePhase(Tr, hr, T_cond, h_f, h_g) ==
    IF Tr > T_cond + SuperheatMargin THEN "superheat"
    ELSE IF hr > h_g - EnthalpyMargin THEN "superheat"
    ELSE IF hr > h_f + EnthalpyMargin THEN "two_phase"
    ELSE "subcooled"

\* h_ref/h_fg, neither referred to h_f nor bounded
DetermineQuality_Raw(phase, hr, h_f, h_fg) ==
    IF phase = "two_phase"
    THEN Some(IF h_fg > 0 THEN (hr * 1000) \div h_fg ELSE 500)
    ELSE None

\* quality in thousandths
DetermineQuality(phase, hr, h_f, h_fg) ==
    IF phase = "two_phase"
    THEN LET q == IF h_fg > 0 THEN ((hr - h_f) * 1000) \div h_fg ELSE 500
         IN  Some(Max(0, Min(1000, q)))
    ELSE None

(***************************************************************************)
(* STEP 3: tubes active in the zone of the phase.                          *)
(***************************************************************************)
\* the default of phase_to_zone.get for every phase
phase_to_zone_Default(current_phase) == "condense"

phase_to_zone(current_phase) ==
    CASE current_phase = "superheat" -> "desuperheat"
      [] current_phase = "two_phase" -> "condense"
      [] current_phase = "subcooled" -> "subcool"
      [] OTHER -> "condense"

get_active_tubes_in_zone(tube_zones, current_phase) ==
    { tube_num \in DOMAIN tube_zones :
          tube_zones[tube_num] = phase_to_zone(current_phase) }

\* inputs.get("tube_zones", None): no map is given when the key is absent
\* or its value is None
HasTubeZones(inp) ==
    "tube_zones" \in DOMAIN inp /\ inp.tube_zones # None

ActiveTubes(inp, phase) ==
    IF HasTubeZones(inp)
    THEN Cardinality(get_active_tubes_in_zone(inp.tube_zones, phase))
    ELSE inp.n_tubes

(***************************************************************************)
(* STEP 2: local heat capacity.                                            *)
(***************************************************************************)
LocalCp(pr, phase) ==
    IF phase = "superheat" THEN get_refrigerant_properties(pr, "vapor").cp_vapor
    ELSE IF phase = "two_phase" THEN TwoPhaseCp
    ELSE get_refrigerant_properties(pr, "liquid").cp_liquid

TubeSideHTC(pr, phase) ==
    IF phase = "two_phase" THEN calculate_condensation_htc_local(pr)
    ELSE calculate_single_phase_htc_local(pr, phase)

(***************************************************************************)
(* STEP 4: area and driving force.  L_segment = tube_length/n_segments is  *)
(* carried as the numerator 2*tube_length over 2*n_segments; pi is 22/7.   *)
(***************************************************************************)
LengthDen(n) == 2 * n

L_segment(tube_length) == 2 * tube_length

\* the midpoint without the offset i * L_segment
SegmentPosition_NoOffset(k, tube_length) == L_segment(tube_length) \div 2

SegmentPosition(k, tube_length) ==
    k * L_segment(tube_length) + L_segment(tube_length) \div 2

SegmentArea(tube_od, tube_length, n, n_tubes_active) ==
    (22 * tube_od * L_segment(tube_length) * n_tubes_active)
        \div (7 * LengthDen(n) * 10000)

\* (dt1 - dt2)/ln(dt1/dt2) for dt1, dt2 > 0, by (dt1 + dt2 + 4*sqrt(dt1*dt2))/6
LogMean(dt1, dt2) == (dt1 + dt2 + ISqrt(16 * dt1 * dt2)) \div 6

SegmentLMTD(phase, Tr, Tw, T_cond) ==
    IF phase = "two_phase" THEN T_cond - Tw
    ELSE LET T_ref_out_est == IF phase = "superheat"
                              THEN Tr - dT_ref_estimate
                              ELSE Tr + dT_ref_estimate
             T_water_out_est == Tw + dT_water_estimate
             dt1 == Tr - T_water_out_est
             dt2 == T_ref_out_est - Tw
         IN  IF dt1 > 0 /\ dt2 > 0
             THEN IF Abs(dt1 - dt2) > 0 THEN LogMean(dt1, dt2)
                  ELSE (dt1 + dt2) \div 2
             ELSE LMTD_Fallback

SegmentDuty(U_local, A_segment, LMTD_segment) ==
    U_local * A_segment * LMTD_segment

(***************************************************************************)
(* STEP 5: state update.                                                   *)
(***************************************************************************)
NextTRef(phase, Tr, Q_segment, m_dot_ref, cp_ref, T_cond) ==
    IF phase = "two_phase" THEN T_cond
    ELSE Tr - (Q_segment \div (m_dot_ref * cp_ref))

NextHRef(hr, Q_segment, m_dot_ref) == hr - (Q_segment \div m_dot_ref)

NextTWater(Tw, Q_segment, C_water) == Tw + (Q_segment \div C_water)

\* "=" written for "+="
NextQCumulative_Assign(Qc, Q_segment) == Q_segment

NextQCumulative(Qc, Q_segment) == Qc + Q_segment

(***************************************************************************)
(* POST-PROCESSING.  df is pd.DataFrame(segments_data): its columns are    *)
(* the union of the keys of the dictionaries, a key that a dictionary      *)
(* lacks is NaN in its row; sum() and mean() skip NaN, the mean of no      *)
(* value is NaN, and df[col] of a column that no row has raises KeyError.  *)
(* A mean is kept exactly, as [sum, n] (n = 0: NaN).                       *)
(***************************************************************************)
Columns(df) == UNION { DOMAIN df[k] : k \in DOMAIN df }

PhaseRows(df, phase) == { k \in DOMAIN df : df[k].phase = phase }

Cell(row, col) == IF col \in DOMAIN row THEN Some(row[col]) ELSE None

RECURSIVE ColSumUpTo(_, _, _, _)
ColSumUpTo(df, rows, col, k) ==
    IF k = 0 THEN 0
    ELSE ColSumUpTo(df, rows, col, k - 1)
         + (IF k \in rows /\ col \in DOMAIN df[k] THEN df[k][col] ELSE 0)

ColSum(df, rows, col) == ColSumUpTo(df, rows, col, Len(df))

ColMean(df, rows, col) ==
    [sum |-> ColSum(df, rows, col),
     n   |-> Cardinality({ k \in rows : col \in DOMAIN df[k] })]

MeanPositive(m) == m.n > 0 /\ m.sum > 0

SetMin(S) == CHOOSE x \in S : \A y \in S : x <= y
SetMax(S) == CHOOSE x \in S : \A y \in S : x >= y

\* the zone taken from its first to its last segment, the last one left out
identify_zone_boundaries_Span(df) ==
    [phase \in { Phases[j] : j \in { j \in 1..3 : PhaseRows(df, Phases[j]) # {} } } |->
        LET rows == PhaseRows(df, phase)
            span == SetMax(rows) - SetMin(rows)
        IN  [start_segment    |-> df[SetMin(rows)].segment_number,
             end_segment      |-> df[SetMax(rows)].segment_number,
             start_position_m |-> df[SetMin(rows)].position_m,
             end_position_m   |-> df[SetMax(rows)].position_m,
             length_m         |-> span * df[SetMin(rows)].length_m,
             n_segments       |-> span]]

identify_zone_boundaries(df) ==
    [phase \in { Phases[j] : j \in { j \in 1..3 : PhaseRows(df, Phases[j]) # {} } } |->
        LET rows == PhaseRows(df, phase)
        IN  [start_segment    |-> df[SetMin(rows)].segment_number,
             end_segment      |-> df[SetMax(rows)].segment_number,
             start_position_m |-> df[SetMin(rows)].position_m,
             end_position_m   |-> df[SetMax(rows)].position_m,
             length_m         |-> ColSum(df, rows, "length_m"),
             n_segments       |-> Cardinality(rows)]]

\* the first column that calculate_zone_summaries reads and df lacks
ZoneSummariesKeyError(df, boundaries) ==
    IF DOMAIN boundaries = {} THEN None
    ELSE IF "A_segment" \notin Columns(df) THEN Some("A_segment")
    ELSE IF "LMTD" \notin Columns(df) THEN Some("LMTD")
    ELSE None

calculate_zone_summaries(df, boundaries) ==
    [phase \in DOMAIN boundaries |->
        LET rows == PhaseRows(df, phase)
        IN  [Q_total    |-> ColSum(df, rows, "Q_segment"),
             A_total    |-> ColSum(df, rows, "A_segment"),
             length_m   |-> boundaries[phase].length_m,
             U_avg      |-> ColMean(df, rows, "U_local"),
             h_tube_avg |-> ColMean(df, rows, "h_tube"),
             LMTD_avg   |-> ColMean(df, rows, "LMTD"),
             n_segments |-> boundaries[phase].n_segments]]

(***************************************************************************)
(* analyze_subcool_zone.  A message is [msg, args]: the fixed text and the *)
(* numbers formatted into it (a quotient as <<numerator, denominator>>).   *)
(* The required area Q_subcool_req/(U_avg*LMTD_avg) is kept exactly, as    *)
(* [num, den].                                                             *)
(***************************************************************************)
Msg(text, args) == [msg |-> text, args |-> args]

NoSubcoolWarning ==
    Msg("CRITICAL: No subcooled zone detected! Refrigerant exits as saturated liquid or two-phase.", << >>)

\* the list without its last entry
NoSubcoolRecommendations_Short ==
    << Msg("1. Increase total tube length by 20-30%", << >>),
       Msg("2. Add separate subcooler (RECOMMENDED)", << >>),
       Msg("3. Reduce water inlet temperature", << >>) >>

NoSubcoolRecommendations ==
    << Msg("1. Increase total tube length by 20-30%", << >>),
       Msg("2. Add separate subcooler (RECOMMENDED)", << >>),
       Msg("3. Reduce water inlet temperature", << >>),
       Msg("4. Increase water flow rate", << >>) >>

RequiredSubcoolArea(Q_subcool_req, U_avg, LMTD_avg) ==
    IF MeanPositive(U_avg) /\ MeanPositive(LMTD_avg)
    THEN [num |-> Q_subcool_req * U_avg.n * LMTD_avg.n,
          den |-> U_avg.sum * LMTD_avg.sum]
    ELSE [num |-> 0, den |-> 1]

AreaAdequate(A_actual, A_req) ==
    A_actual * A_req.den * 100 >= A_req.num * AdequacyPercent

\* two tiers only: every deficit up to 50% takes the MINOR list
DeficitRecommendations_TwoTiers(A_actual, A_req) ==
    LET deficit_num == A_req.num - A_actual * A_req.den
        pct_num     == IF A_req.num > 0 THEN deficit_num * 100 ELSE 0
        pct_den     == IF A_req.num > 0 THEN A_req.num ELSE 1
        length_pct  == <<pct_num, pct_den, LengthFactorTenths>>
        cooler_area == <<deficit_num * CoolerFactorTenths, A_req.den * 10>>
    IN  IF pct_num > SevereDeficitPercent * pct_den
        THEN << Msg("SEVERE DEFICIT - Major changes needed:", << >>),
                Msg("1. Add separate subcooler with {} m2 area (STRONGLY RECOMMENDED)", cooler_area),
                Msg("2. OR increase tube length by {}%", length_pct),
                Msg("3. Consider zoned condenser with dedicated subcool section", << >>) >>
        ELSE << Msg("MINOR DEFICIT - Optimization options:", << >>),
                Msg("1. Increase tube length by {}%", length_pct),
                Msg("2. Lower water inlet temperature by 2-3C", << >>),
                Msg("3. Increase water flow rate by 10-15%", << >>),
                Msg("4. Current design may be acceptable with slight subcool reduction", << >>) >>

DeficitRecommendations(A_actual, A_req) ==
    LET deficit_num == A_req.num - A_actual * A_req.den
        deficit     == <<deficit_num, A_req.den>>
        \* deficit_percent = deficit_num*100/A_req.num when A_req > 0, else 0
        pct_num     == IF A_req.num > 0 THEN deficit_num * 100 ELSE 0
        pct_den     == IF A_req.num > 0 THEN A_req.num ELSE 1
        \* deficit_percent * 1.1: the percentage and the factor, in tenths
        length_pct  == <<pct_num, pct_den, LengthFactorTenths>>
        \* deficit * 1.2
        cooler_area == <<deficit_num * CoolerFactorTenths, A_req.den * 10>>
    IN  IF pct_num > SevereDeficitPercent * pct_den
        THEN << Msg("SEVERE DEFICIT - Major changes needed:", << >>),
                Msg("1. Add separate subcooler with {} m2 area (STRONGLY RECOMMENDED)", cooler_area),
                Msg("2. OR increase tube length by {}%", length_pct),
                Msg("3. Consider zoned condenser with dedicated subcool section", << >>) >>
        ELSE IF pct_num > ModerateDeficitPercent * pct_den
        THEN << Msg("MODERATE DEFICIT - Changes recommended:", << >>),
                Msg("1. Increase tube length by {}%", length_pct),
                Msg("2. OR add separate subcooler with {} m2 area", cooler_area),
                Msg("3. Lower water inlet temperature by 3-5C if possible", << >>),
                Msg("4. Increase water flow rate by 20-30%", << >>) >>
        ELSE << Msg("MINOR DEFICIT - Optimization options:", << >>),
                Msg("1. Increase tube length by {}%", length_pct),
                Msg("2. Lower water inlet temperature by 2-3C", << >>),
                Msg("3. Increase water flow rate by 10-15%", << >>),
                Msg("4. Current design may be acceptable with slight subcool reduction", << >>) >>

AreaWarning(A_actual, A_req) ==
    Msg("Subcool zone area insufficient: Has {} m2, needs {} m2 (deficit: {} m2, {}%)",
        <<A_actual, A_req.num, A_req.den>>)

\* the approach at the first subcooled row is below 3.0 (NaN compares false)
ThermalPinch(df, rows, T_cond) ==
    /\ rows # {}
    /\ "T_water_out" \in DOMAIN df[SetMin(rows)]
    /\ T_cond - df[SetMin(rows)].T_water_out < PinchApproach

PinchWarning(approach) ==
    Msg("THERMAL PINCH: Temperature approach at subcool zone inlet is only {}C. This severely limits subcooling performance.",
        <<approach>>)

PinchRecommendation ==
    Msg("5. Consider zoned design to dedicate cooler water to subcool zone", << >>)

analyze_subcool_zone(df, boundaries, subcool_req, T_cond, inp) ==
    IF "subcooled" \notin DOMAIN boundaries
    THEN [adequate        |-> FALSE,
          warnings        |-> <<NoSubcoolWarning>>,
          recommendations |-> NoSubcoolRecommendations]
    ELSE LET rows          == PhaseRows(df, "subcooled")
             A_actual      == ColSum(df, rows, "A_segment")
             Q_subcool_req == inp.m_dot_ref * inp.ref_props.cp_liquid * subcool_req
             A_req         == RequiredSubcoolArea(Q_subcool_req,
                                  ColMean(df, rows, "U_local"),
                                  ColMean(df, rows, "LMTD"))
             ok            == AreaAdequate(A_actual, A_req)
             pinch         == ThermalPinch(df, rows, T_cond)
         IN  [adequate           |-> ok,
              A_subcool_actual   |-> A_actual,
              A_subcool_required |-> A_req,
              area_ratio         |-> IF A_req.num > 0
                                     THEN <<A_actual * A_req.den, A_req.num>>
                                     ELSE <<NoAreaRatio, 1>>,
              warnings           |->
                  (IF ok THEN << >> ELSE <<AreaWarning(A_actual, A_req)>>)
                  \o (IF pinch
                      THEN <<PinchWarning(T_cond - df[SetMin(rows)].T_water_out)>>
                      ELSE << >>),
              recommendations    |->
                  (IF ok THEN << >> ELSE DeficitRecommendations(A_actual, A_req))
                  \o (IF pinch THEN <<PinchRecommendation>> ELSE << >>)]

\* the first column that the three profile builders read and df lacks
ProfileKeyError(df) ==
    IF "T_water_out" \notin Columns(df) THEN Some("T_water_out")
    ELSE IF "h_shell" \notin Columns(df) THEN Some("h_shell")
    ELSE None

Column(df, col) == [k \in DOMAIN df |-> Cell(df[k], col)]

create_temperature_profile(df) ==
    [position |-> Column(df, "position_m"),
     T_ref    |-> Column(df, "T_ref"),
     T_water  |-> Column(df, "T_water_out"),
     phase    |-> Column(df, "phase")]

create_htc_profile(df) ==
    [position |-> Column(df, "position_m"),
     h_tube   |-> Column(df, "h_tube"),
     h_shell  |-> Column(df, "h_shell"),
     U_local  |-> Column(df, "U_local")]

create_phase_map(df) ==
    [position |-> Column(df, "position_m"),
     phase    |-> Column(df, "phase"),
     quality  |-> Column(df, "quality")]

SubcoolAdequate(subcool_achieved, subcool_req) ==
    subcool_achieved * 100 >= subcool_req * AdequacyPercent

(***************************************************************************)
(* The runs explored: every combination of the values below.               *)
(***************************************************************************)
ZoneNames == {"desuperheat", "condense", "subcool"}

TubeZoneMaps(n_tubes) == [0..(n_tubes - 1) -> ZoneNames]

\* a map whose first tube is set "inactive" in the tube sheet
InactiveTubeZoneMaps(n_tubes) ==
    { [t \in 0..(n_tubes - 1) |-> IF t = 0 THEN "inactive" ELSE z] : z \in ZoneNames }

\* a map that assigns one tube more than n_tubes, all to one zone
OversizedTubeZoneMaps(n_tubes) ==
    { [t \in 0..n_tubes |-> z] : z \in ZoneNames }

SegmentCounts == 1..MaxSegments
TubeCounts == 1..MaxTubes
InletTemperatures == {450, 500}
LatentHeats == {0, 150}
WaterCapacityRates == {300, 20000}
WaterInletTemperatures == {350, 430}
RefrigerantFlows == {40, 400}
SubcoolTargets == {50, 348, 349, 700}

BaseInputs(m, Tin, sub, nt, Cw, Twin, hfg) ==
    [refrigerant          |-> "R134a",
     m_dot_ref            |-> m,
     T_ref_in_superheated |-> Tin,
     T_ref                |-> 450,
     delta_T_sh_sc        |-> sub,
     n_tubes              |-> nt,
     tube_length          |-> 6000,
     tube_od              |-> 21,
     tube_id              |-> 18,
     m_dot_water          |-> 7,
     C_water              |-> Cw,
     T_water_in           |-> Twin,
     P_cond               |-> 1160,
     ref_props            |-> [h_fg |-> hfg, cp_liquid |-> 1],
     tube_k               |-> 16,
     R_fouling_tube       |-> 2,
     R_fouling_shell      |-> 2]

WithTubeZones(inp, tube_zones) ==
    [key \in DOMAIN inp \cup {"tube_zones"} |->
        IF key = "tube_zones" THEN tube_zones ELSE inp[key]]

UnzonedInputs ==
    { BaseInputs(m, Tin, sub, nt, Cw, Twin, hfg) :
         m \in RefrigerantFlows, Tin \in InletTemperatures,
         sub \in SubcoolTargets, nt \in TubeCounts,
         Cw \in WaterCapacityRates, Twin \in WaterInletTemperatures,
         hfg \in LatentHeats }

ZonedInputs ==
    UNION { { WithTubeZones(b, z) : z \in TubeZoneMaps(b.n_tubes) } : b \in UnzonedInputs }

\* the callers' other maps, for one subcooling target and one latent heat
OtherZonedInputs ==
    UNION { { WithTubeZones(b, z) :
                 z \in {None} \cup InactiveTubeZoneMaps(b.n_tubes)
                              \cup OversizedTubeZoneMaps(b.n_tubes) } :
            b \in { u \in UnzonedInputs :
                       u.delta_T_sh_sc = 50 /\ u.ref_props.h_fg = 150 } }

\* no flow, reversed flow, no water flow, a bore as wide as or wider than
\* the tube: the method has no check that refuses them
InvalidFlows == {0, -4000}
InvalidBores == {21, 24}

InvalidInputs ==
    UNION { { [b EXCEPT !.m_dot_ref = m] : m \in InvalidFlows }
            \cup { [b EXCEPT !.tube_id = d] : d \in InvalidBores }
            \cup { [b EXCEPT !.m_dot_water = 0] } :
            b \in { u \in UnzonedInputs :
                       /\ u.delta_T_sh_sc = 50 /\ u.ref_props.h_fg = 150
                       /\ u.m_dot_ref = 40 /\ u.T_water_in = 350 } }

\* a water stream that comes within 3 K of T_cond inside the subcooled zone
PinchInputs ==
    { BaseInputs(40, Tin, sub, 1, 2000, 380, 150) :
         Tin \in InletTemperatures, sub \in SubcoolTargets }

InputSpace ==
    UnzonedInputs \cup ZonedInputs \cup OtherZonedInputs \cup InvalidInputs
        \cup PinchInputs

\* a property service that is consistent with the inputs
PropsFor(inp) ==
    [h_liquid_sat |-> 2600,
     h_vapor_in   |-> 2600 + inp.ref_props.h_fg * 10
                        + 1 * (inp.T_ref_in_superheated - inp.T_ref),
     cp_vapor     |-> 1,
     cp_liquid    |-> inp.ref_props.cp_liquid,
     htc_vapor    |-> 30,
     htc_liquid   |-> 40,
     htc_cond     |-> 200,
     h_shell      |-> 300]

\* What the service may answer for the inputs inp.  h_g is taken from
\* inputs["ref_props"]["h_fg"], the inlet enthalpy from the service: for
\* some inputs the service also has a table whose vapor enthalpy lies
\* 10 kJ/kg below the one that agrees with that h_fg.
VaporTableOffsets == {-100}

ServiceProps(inp) ==
    {PropsFor(inp)} \cup
    (IF /\ inp \in UnzonedInputs
        /\ inp.delta_T_sh_sc = 50
        /\ inp.ref_props.h_fg = 150
        /\ inp.C_water = 20000
     THEN { [PropsFor(inp) EXCEPT !.h_vapor_in = @ + d] : d \in VaporTableOffsets }
     ELSE {})

(***************************************************************************)
(* calculate_condenser_segmented, lines 63-105: the state before the loop. *)
(***************************************************************************)
T_cond == inputs["T_ref"]
h_fg == inputs.ref_props.h_fg * 10
h_f == get_enthalpy(props, "liquid")
h_g == h_f + h_fg

\* segments_data = [] of line 83, kept by a trace that outlived its run
InitialSegmentsData_Kept(earlier) == earlier

\* segments_data = [] of line 83; earlier is the list of the run before
InitialSegmentsData(earlier) == << >>

\* __init__ and lines 63-105 for the inputs inp, called from step 5 of the
\* wizard (design_step 5, no results stored yet)
FirstRun(inp) ==
    /\ n_segments \in SegmentCounts
    /\ self_segments = << >>
    /\ self_zone_boundaries = << >>
    /\ inputs = inp
    /\ props \in ServiceProps(inputs)
    /\ pc = "march"
    /\ i = 0
    /\ T_ref = inputs.T_ref_in_superheated
    /\ T_water = inputs.T_water_in
    /\ h_ref = get_enthalpy(props, "vapor")
    /\ Q_cumulative = 0
    /\ current_zone = "None"
    /\ zone_start_indices = << >>
    /\ segments_data = InitialSegmentsData(<< >>)
    /\ results = None
    /\ error = None
    /\ design_step = 5
    /\ segment_results = None
    /\ previous = None
    /\ UiIdle

Init == \E inp \in InputSpace : FirstRun(inp)

(***************************************************************************)
(* One pass of the segment loop, lines 110-297.                            *)
(***************************************************************************)
CurrentPhase == DeterminePhase(T_ref, h_ref, T_cond, h_f, h_g)

SegmentHead(phase) ==
    [segment_number |-> i + 1,
     position_m     |-> SegmentPosition(i, inputs.tube_length),
     length_m       |-> L_segment(inputs.tube_length),
     phase          |-> phase,
     quality        |-> DetermineQuality(phase, h_ref, h_f, h_fg),
     T_ref          |-> T_ref,
     n_tubes_active |-> ActiveTubes(inputs, phase)]

TrackZone(phase) ==
    IF phase # current_zone
    THEN /\ zone_start_indices' =
              [p \in DOMAIN zone_start_indices \cup {phase} |->
                  IF p = phase THEN i ELSE zone_start_indices[p]]
         /\ current_zone' = phase
    ELSE UNCHANGED <<zone_start_indices, current_zone>>

\* the zero-tube branch cools the refrigerant by the estimate instead of
\* leaving the state to the next segment as it found it
SegmentZeroTubes_Cooled ==
    /\ pc = "march"
    /\ i < n_segments
    /\ LET phase == CurrentPhase
       IN  /\ ActiveTubes(inputs, phase) = 0
           /\ TrackZone(phase)
           /\ segments_data' = Append(segments_data,
                  SegmentHead(phase) @@
                  [Q_segment |-> 0, h_tube |-> 0, U_local |-> 0])
    /\ i' = i + 1
    /\ T_ref' = T_ref - dT_ref_estimate
    /\ UNCHANGED <<n_segments, self_segments, self_zone_boundaries, inputs,
                   props, pc, T_water, h_ref, Q_cumulative, results, error>>
    /\ UNCHANGED caller_vars
    /\ UNCHANGED ui_vars

\* lines 194-200: no tube is assigned to the zone of the phase
SegmentZeroTubes ==
    /\ pc = "march"
    /\ i < n_segments
    /\ LET phase == CurrentPhase
       IN  /\ ActiveTubes(inputs, phase) = 0
           /\ TrackZone(phase)
           /\ segments_data' = Append(segments_data,
                  SegmentHead(phase) @@
                  [Q_segment |-> 0, h_tube |-> 0, U_local |-> 0])
    /\ i' = i + 1
    /\ UNCHANGED <<n_segments, self_segments, self_zone_boundaries, inputs,
                   props, pc, T_ref, T_water, h_ref, Q_cumulative, results, error>>
    /\ UNCHANGED caller_vars
    /\ UNCHANGED ui_vars

\* lines 202-297
SegmentActive ==
    /\ pc = "march"
    /\ i < n_segments
    /\ LET phase          == CurrentPhase
           n_tubes_active == ActiveTubes(inputs, phase)
           cp_ref         == LocalCp(props, phase)
           h_tube         == TubeSideHTC(props, phase)
           h_shell        == calculate_shell_side_htc_local(props)
           U_local        == calculate_U_local(h_tube, h_shell, inputs.tube_od,
                                 inputs.tube_id, inputs.tube_k,
                                 inputs.R_fouling_tube, inputs.R_fouling_shell)
           A_segment      == SegmentArea(inputs.tube_od, inputs.tube_length,
                                 n_segments, n_tubes_active)
           LMTD_segment   == SegmentLMTD(phase, T_ref, T_water, T_cond)
           Q_segment      == SegmentDuty(U_local, A_segment, LMTD_segment)
       IN  /\ n_tubes_active # 0
           /\ inputs.m_dot_ref # 0
           /\ TrackZone(phase)
           /\ T_ref' = NextTRef(phase, T_ref, Q_segment, inputs.m_dot_ref, cp_ref, T_cond)
           /\ h_ref' = NextHRef(h_ref, Q_segment, inputs.m_dot_ref)
           /\ T_water' = NextTWater(T_water, Q_segment, inputs.C_water)
           /\ Q_cumulative' = NextQCumulative(Q_cumulative, Q_segment)
           /\ segments_data' = Append(segments_data,
                  SegmentHead(phase) @@
                  [h_tube       |-> h_tube,
                   h_shell      |-> h_shell,
                   U_local      |-> U_local,
                   A_segment    |-> A_segment,
                   LMTD         |-> LMTD_segment,
                   Q_segment    |-> Q_segment,
                   T_ref_out    |-> T_ref',
                   T_water_out  |-> T_water',
                   h_ref        |-> h_ref',
                   Q_cumulative |-> Q_cumulative'])
    /\ i' = i + 1
    /\ UNCHANGED <<n_segments, self_segments, self_zone_boundaries, inputs,
                   props, pc, results, error>>
    /\ UNCHANGED caller_vars
    /\ UNCHANGED ui_vars

\* lines 277 and 282: the division by m_dot_ref (or m_dot_ref * cp_ref)
\* raises when m_dot_ref is 0; the segment is not appended
SegmentZeroDivision ==
    /\ pc = "march"
    /\ i < n_segments
    /\ ActiveTubes(inputs, CurrentPhase) # 0
    /\ inputs.m_dot_ref = 0
    /\ TrackZone(CurrentPhase)
    /\ error' = <<"ZeroDivisionError", "m_dot_ref">>
    /\ pc' = "raised"
    /\ UNCHANGED <<n_segments, self_segments, self_zone_boundaries, inputs,
                   props, i, T_ref, T_water, h_ref, Q_cumulative,
                   segments_data, results>>
    /\ UNCHANGED caller_vars
    /\ UNCHANGED ui_vars

(***************************************************************************)
(* Post-processing and return, lines 303-357.                              *)
(***************************************************************************)
PostProcessingKeyError(df) ==
    LET zs == ZoneSummariesKeyError(df, identify_zone_boundaries(df))
    IN  IF zs # None THEN zs
        ELSE IF "subcooled" \in DOMAIN identify_zone_boundaries(df)
                /\ "A_segment" \notin Columns(df) THEN Some("A_segment")
        ELSE ProfileKeyError(df)

CompileResults(df) ==
    LET zone_boundaries == identify_zone_boundaries(df)
        subcool_req     == inputs.delta_T_sh_sc
    IN  [segments            |-> df,
         n_segments          |-> n_segments,
         zone_boundaries     |-> zone_boundaries,
         zone_summaries      |-> calculate_zone_summaries(df, zone_boundaries),
         Q_total             |-> Q_cumulative,
         T_ref_in            |-> inputs.T_ref_in_superheated,
         T_ref_out           |-> T_ref,
         T_water_in          |-> inputs.T_water_in,
         T_water_out         |-> T_water,
         subcool_required    |-> subcool_req,
         subcool_achieved    |-> T_cond - T_ref,
         subcool_adequate    |-> SubcoolAdequate(T_cond - T_ref, subcool_req),
         subcool_analysis    |-> analyze_subcool_zone(df, zone_boundaries,
                                     subcool_req, T_cond, inputs),
         temperature_profile |-> create_temperature_profile(df),
         htc_profile         |-> create_htc_profile(df),
         phase_map           |-> create_phase_map(df)]

\* step 5 of the wizard after the call: design_step 6 on every outcome
step5_design_step_Always(outcome, step) == 6

\* step 5 of the wizard after the call (lines 726-751 of
\* integrated_condenser_designer_COMPLETE.py): the step advances to 6 only
\* behind the assignment of the results; the except branch leaves it
step5_design_step(outcome, step) == IF outcome = "returned" THEN 6 ELSE step

\* the method returns; the caller stores the results (line 732) and advances
Return ==
    /\ pc = "march"
    /\ i = n_segments
    /\ PostProcessingKeyError(segments_data) = None
    /\ results' = CompileResults(segments_data)
    /\ pc' = "returned"
    /\ segment_results' = results'
    /\ design_step' = step5_design_step("returned", design_step)
    /\ UNCHANGED <<n_segments, self_segments, self_zone_boundaries, inputs,
                   props, i, T_ref, T_water, h_ref, Q_cumulative, current_zone,
                   zone_start_indices, segments_data, error, previous>>
    /\ UNCHANGED ui_vars

Raise ==
    /\ pc = "march"
    /\ i = n_segments
    /\ PostProcessingKeyError(segments_data) # None
    /\ error' = <<"KeyError", PostProcessingKeyError(segments_data)[1]>>
    /\ pc' = "raised"
    /\ design_step' = step5_design_step("raised", design_step)
    /\ UNCHANGED <<n_segments, self_segments, self_zone_boundaries, inputs,
                   props, i, T_ref, T_water, h_ref, Q_cumulative, current_zone,
                   zone_start_indices, segments_data, results,
                   segment_results, previous>>
    /\ UNCHANGED ui_vars

Next ==
    \/ SegmentZeroTubes
    \/ SegmentActive
    \/ SegmentZeroDivision
    \/ Return
    \/ Raise

Spec == Init /\ [][Next]_vars

(***************************************************************************)
(* Runs one after another, with a property service that may fail.  The     *)
(* caller is step 5 of the wizard; after a run it comes back to step 5     *)
(* with the same inputs or with the water inlet temperature changed, and   *)
(* calls the method again on a model with the same fields; the service     *)
(* answers the same lookups as before.                                     *)
(***************************************************************************)
RunsInputSpace ==
    { inp \in UnzonedInputs \cup ZonedInputs \cup InvalidInputs :
          /\ inp.delta_T_sh_sc = 50
          /\ inp.ref_props.h_fg = 150
          /\ inp.T_ref_in_superheated = 500
          /\ inp.C_water = 20000 }

ModifiedInputs(inp) ==
    [inp EXCEPT !.T_water_in = IF @ = 350 THEN 430 ELSE 350]

InitRuns == \E inp \in RunsInputSpace : FirstRun(inp)

\* lines 93, 97 and 153-177: a lookup of the property service raises, at
\* entry (i = 0) or in segment i + 1; the exception leaves the method and
\* is caught at line 743 of the wizard
PropertyLookupFails ==
    /\ pc = "march"
    /\ i < n_segments
    /\ error' = <<"PropertyLookup", i>>
    /\ pc' = "raised"
    /\ design_step' = step5_design_step("raised", design_step)
    /\ UNCHANGED <<n_segments, self_segments, self_zone_boundaries, inputs,
                   props, i, T_ref, T_water, h_ref, Q_cumulative, current_zone,
                   zone_start_indices, segments_data, results,
                   segment_results, previous>>
    /\ UNCHANGED ui_vars

\* the next call of calculate_condenser_segmented, lines 63-105
RunAgain ==
    /\ pc \in {"returned", "raised"}
    /\ \E inp \in {inputs, ModifiedInputs(inputs)} :
          /\ inputs' = inp
          /\ T_ref' = inp.T_ref_in_superheated
          /\ T_water' = inp.T_water_in
    /\ h_ref' = get_enthalpy(props, "vapor")
    /\ pc' = "march"
    /\ i' = 0
    /\ Q_cumulative' = 0
    /\ current_zone' = "None"
    /\ zone_start_indices' = << >>
    /\ segments_data' = InitialSegmentsData(segments_data)
    /\ results' = None
    /\ error' = None
    /\ design_step' = 5
    /\ previous' = IF pc = "returned"
                   THEN Some([inputs |-> inputs, results |-> results])
                   ELSE previous
    /\ UNCHANGED <<n_segments, self_segments, self_zone_boundaries, props,
                   segment_results>>
    /\ UNCHANGED ui_vars

NextRuns ==
    \/ Next
    \/ PropertyLookupFails
    \/ RunAgain

SpecRuns == InitRuns /\ [][NextRuns]_vars

(***************************************************************************)
(* A session in which calculate_condenser_segmented has not been called.   *)
(***************************************************************************)
NoRun ==
    /\ n_segments = 0
    /\ self_segments = << >>
    /\ self_zone_boundaries = << >>
    /\ inputs = None
    /\ props = None
    /\ pc = "idle"
    /\ i = 0
    /\ T_ref = 0
    /\ T_water = 0
    /\ h_ref = 0
    /\ Q_cumulative = 0
    /\ current_zone = "None"
    /\ zone_start_indices = << >>
    /\ segments_data = << >>
    /\ results = None
    /\ error = None

(***************************************************************************)
(* The tube sheet (src/modules/interactive_tube_sheet_designer.py,         *)
(* InteractiveTubeSheet).  The pitch is in mm and positions are in         *)
(* 0.001 mm, so that the row height pitch*0.866 and the half-pitch offset  *)
(* are whole numbers.                                                      *)
(***************************************************************************)
MinSheetTubes == 10
MaxSheetTubes == 500
SheetTubeCounts == MinSheetTubes..MaxSheetTubes
TubeLayouts == {"triangular", "square"}
TubePitches == {15}

\* int(np.ceil(np.sqrt(p/q))): the least r with r*r >= p/q
CeilSqrt(p, q) ==
    CHOOSE r \in 0..(p + 1) : /\ r * r * q >= p
                              /\ r > 0 => (r - 1) * (r - 1) * q < p

\* int(np.sqrt(p/q)): the greatest c with c*c <= p/q
FloorSqrt(p, q) ==
    CHOOSE c \in 0..p : /\ c * c * q <= p
                        /\ (c + 1) * (c + 1) * q > p

\* lines 319 and 337: the number of rows; n/0.866 = (1000*n)/866, and the
\* least r with r*r*866 >= 1000*n is at most n + 1
LayoutRows(n_tubes, tube_layout) ==
    IF tube_layout = "triangular"
    THEN CHOOSE r \in 0..(n_tubes + 1) :
             /\ r * r * 866 >= n_tubes * 1000
             /\ r > 0 => (r - 1) * (r - 1) * 866 < n_tubes * 1000
    ELSE CeilSqrt(n_tubes, 1)

\* lines 322 and 340: the positions the inner loop makes in one row
LayoutColumns(n_tubes, tube_layout) ==
    IF tube_layout = "triangular"
    THEN FloorSqrt(n_tubes, LayoutRows(n_tubes, tube_layout))
    ELSE LayoutRows(n_tubes, tube_layout)

\* lines 323-327 and 341-343: the position of column col of row row
TubePosition(tube_layout, tube_pitch, row, col) ==
    IF tube_layout = "triangular"
    THEN <<col * tube_pitch * 1000 + (row % 2) * tube_pitch * 500,
           row * tube_pitch * 866>>
    ELSE <<col * tube_pitch * 1000, row * tube_pitch * 1000>>

\* lines 307-351: rows are filled one after another until n_tubes
\* positions exist or the rows are used up
generate_tube_layout(n_tubes, tube_layout, tube_pitch) ==
    LET n_rows == LayoutRows(n_tubes, tube_layout)
        n_cols == LayoutColumns(n_tubes, tube_layout)
        made   == IF n_rows * n_cols < n_tubes THEN n_rows * n_cols ELSE n_tubes
    IN  [k \in 1..made |->
            TubePosition(tube_layout, tube_pitch, (k - 1) \div n_cols,
                         (k - 1) % n_cols)]

\* lines 283-305
InteractiveTubeSheet(n_tubes, tube_layout, tube_pitch) ==
    [n_tubes        |-> n_tubes,
     tube_layout    |-> tube_layout,
     tube_pitch     |-> tube_pitch,
     tube_positions |-> generate_tube_layout(n_tubes, tube_layout, tube_pitch),
     tube_zones     |-> [t \in 0..(n_tubes - 1) |-> "condense"],
     water_inlet    |-> None,
     water_outlet   |-> None]

\* lines 500-504: the row of a position is the rank of its y among the
\* distinct y of the sheet
RowOf(unique_y, y) == Cardinality({ u \in unique_y : u < y })

\* lines 489-506: only the tubes that have a position are visited
assign_zone_by_rows(sheet, zone_name, row_start, row_end) ==
    LET positions == sheet.tube_positions
        unique_y  == { positions[j][2] : j \in DOMAIN positions }
        rows      == { y \in unique_y : /\ row_start <= RowOf(unique_y, y)
                                        /\ RowOf(unique_y, y) <= row_end }
    IN  [sheet EXCEPT !.tube_zones =
            [t \in DOMAIN sheet.tube_zones |->
                IF t + 1 \in DOMAIN positions /\ positions[t + 1][2] \in rows
                THEN zone_name
                ELSE sheet.tube_zones[t]]]

\* lines 353-470: with show_zones the positions are indexed by the tube
\* numbers of each zone (line 380), which raises IndexError when a tube
\* number has no position; without it all positions are plotted
draw_tube_sheet_interactive(sheet, show_zones) ==
    IF show_zones /\ \E t \in DOMAIN sheet.tube_zones :
                         t + 1 \notin DOMAIN sheet.tube_positions
    THEN <<"IndexError", Len(sheet.tube_positions)>>
    ELSE <<"figure", Len(sheet.tube_positions)>>

AssignedZones == {"desuperheat", "subcool"}
AssignedRows == {<<0, 0>>}

\* step 4 of the wizard makes the sheet when the session has none (lines
\* 492-503 of integrated_condenser_designer_COMPLETE.py; the tube count is
\* drawn from the whole range that the sheet's own page accepts, line 546)
GenerateTubeSheet ==
    /\ tube_sheet = None
    /\ \E n \in SheetTubeCounts, layout \in TubeLayouts, pitch \in TubePitches :
           tube_sheet' = InteractiveTubeSheet(n, layout, pitch)
    /\ sheet_fig' = None
    /\ UNCHANGED <<march_vars, caller_vars, auth_vars, dx_vars, wizard_vars,
                   tema_type>>

\* an "Assign" button of the row tab, lines 576-597
AssignZoneByRows ==
    /\ tube_sheet # None
    /\ \E zone \in AssignedZones, rows \in AssignedRows :
           tube_sheet' = assign_zone_by_rows(tube_sheet, zone, rows[1], rows[2])
    /\ sheet_fig' = None
    /\ UNCHANGED <<march_vars, caller_vars, auth_vars, dx_vars, wizard_vars,
                   tema_type>>

\* the display of the sheet, line 622
DrawTubeSheet ==
    /\ tube_sheet # None
    /\ \E show_zones \in BOOLEAN :
           sheet_fig' = draw_tube_sheet_interactive(tube_sheet, show_zones)
    /\ UNCHANGED <<march_vars, caller_vars, tube_sheet, auth_vars, dx_vars,
                   wizard_vars, tema_type>>

InitSheet ==
    /\ NoRun
    /\ design_step = 1
    /\ segment_results = None
    /\ previous = None
    /\ UiIdle

NextSheet ==
    \/ GenerateTubeSheet
    \/ AssignZoneByRows
    \/ DrawTubeSheet

SpecSheet == InitSheet /\ [][NextSheet]_vars

(***************************************************************************)
(* The application (src/app.py): the password gate and the sidebar, and    *)
(* the tube-side (DX) pages of the professional designer                   *)
(* (src/professional_condenser_designer.py).  An action is one interaction *)
(* of the user together with the whole script run that it triggers: the    *)
(* callback or button handler, and every page function that the run calls  *)
(* after it (step 1, then step 2, then step 3 of the DX design).           *)
(* A number input without a key is identified by its parameters: when its  *)
(* value, min_value or max_value argument changes it is a new widget that  *)
(* shows its value argument, and a widget that a run does not create       *)
(* loses its state.                                                        *)
(***************************************************************************)
ConfiguredPassword == "Semaanju"
PasswordTexts == {"Semaanju", "semaanju", "guess"}
MaxSubmissions == 2

\* two of the five entries of the selectbox, app.py lines 98-104
AppModes == {"Home", "Condenser Designer (Professional)"}
Professional == "Condenser Designer (Professional)"
ShellSide == "Shell-Side Refrigerant"
TubeSide == "Tube-Side Refrigerant (DX)"
CondenserModes == {ShellSide, TubeSide}
DxTemaTypes == {"BEM", "BEU"}

PasswordMatches_AnyCase(pw) == pw \in {"Semaanju", "semaanju"}
\* the comparison of password_entered, line 37
PasswordMatches(pw) == pw = ConfiguredPassword

\* password_entered, lines 36-41: the two session keys after the callback
password_entered(pw) ==
    IF PasswordMatches(pw)
    THEN [password_correct |-> Some(TRUE), password |-> None]
    ELSE [password_correct |-> Some(FALSE), password |-> Some(pw)]

\* check_password after the callback, lines 43-56: what the run shows
check_password(correct) ==
    IF correct = None THEN "prompt"
    ELSE IF correct = Some(FALSE) THEN "prompt and error"
    ELSE "body"

\* initialize_session_state, lines 79-85
DefaultAllocation ==
    [total_rows |-> 40, desuperheat_rows |-> 8, condensing_rows |-> 27,
     subcooling_rows |-> 5]

\* the row counts that calculate_zone_requirements_dx returns, each
\* math.ceil(max(1, A_zone / A_row)); the areas come from CoolProp
ZoneRequirementSets ==
    { [desuperheat_rows |-> 2, condensing_rows |-> 5, subcooling_rows |-> 3],
      [desuperheat_rows |-> 2, condensing_rows |-> 6, subcooling_rows |-> 3],
      [desuperheat_rows |-> 3, condensing_rows |-> 5, subcooling_rows |-> 2] }

\* values that the user gives to the number inputs of step 2
TotalRowChoices == {10, 11}
ZoneRowChoices == {1, 3, 6}
ZoneKeys == {"desuperheat_rows", "condensing_rows", "subcooling_rows"}

\* total_rec of dx_step2_allocate_rows, line 583
RecommendedTotal(req) ==
    req.desuperheat_rows + req.condensing_rows + req.subcooling_rows

\* the value arguments of the four number inputs, lines 594-625
DefaultWidgets(req) ==
    [total_rows       |-> RecommendedTotal(req),
     desuperheat_rows |-> req.desuperheat_rows,
     condensing_rows  |-> req.condensing_rows,
     subcooling_rows  |-> req.subcooling_rows]

\* the four number inputs in a run whose requirements are req, when the run
\* before had the requirements old and the inputs showed w
KeptWidgets(old, req, w) ==
    IF w = None \/ old = None THEN DefaultWidgets(req)
    ELSE LET total == IF RecommendedTotal(old) = RecommendedTotal(req)
                      THEN w.total_rows ELSE RecommendedTotal(req)
         IN  [key \in DOMAIN w |->
                 IF key = "total_rows" THEN total
                 ELSE IF old[key] = req[key] /\ total = w.total_rows
                      THEN w[key] ELSE req[key]]

\* allocated and remaining of dx_step2_allocate_rows, lines 628-629
Allocated(alloc) ==
    alloc.desuperheat_rows + alloc.condensing_rows + alloc.subcooling_rows
Remaining(alloc) == alloc.total_rows - Allocated(alloc)

AllocationRefused_OnlyUnallocated(remaining) == remaining > 0
\* the test of the Calculate button, line 652
AllocationRefused(remaining) == remaining # 0

\* calculate_dx_with_allocation, lines 989-1059: the heat rates, which are
\* the required ones scaled by allocated over required rows, are left out
calculate_dx_with_allocation(req, allocation) ==
    LET subcool_adequate ==
            100 * allocation.subcooling_rows >= 95 * req.subcooling_rows
    IN  [subcool_adequate    |-> subcool_adequate,
         subcool_rows_needed |-> req.subcooling_rows,
         zones |-> [desuperheat |-> allocation.desuperheat_rows,
                    condensing  |-> allocation.condensing_rows,
                    subcooling  |-> allocation.subcooling_rows],
         warnings |->
             (IF subcool_adequate THEN {} ELSE {"subcooling"})
             \cup (IF 10 * allocation.desuperheat_rows < 9 * req.desuperheat_rows
                   THEN {"desuperheat"} ELSE {})
             \cup (IF 10 * allocation.condensing_rows < 9 * req.condensing_rows
                   THEN {"condensing"} ELSE {})]

\* the "Apply This Fix" handler, lines 764-771, on the session's allocation
ApplyFix(alloc, res) ==
    LET additional_rows == res.subcool_rows_needed - alloc.subcooling_rows
    IN  [alloc EXCEPT !.subcooling_rows = res.subcool_rows_needed,
                      !.condensing_rows = @ - additional_rows]

MsgRequirements == "Zone Requirements Calculated"
MsgRequirementsError == "Error in input processing"
MsgAllocateAll == "Please allocate all rows before calculating"
MsgComplete == "Calculation complete! View results in Step 3"
MsgFixApplied == "Allocation updated! Recalculate in Step 2"

\* the last run showed the tube-side pages
DxPage ==
    /\ rendered = "body"
    /\ app_mode = Professional
    /\ condenser_mode = TubeSide

AppFrame == UNCHANGED <<march_vars, caller_vars, sheet_vars, wizard_vars>>

\* the first script run of a session: check_password shows the prompt
OpenApp ==
    /\ rendered = "nothing"
    /\ rendered' = check_password(password_correct)
    /\ UNCHANGED <<password_correct, password, submissions, dx_vars, tema_type>>
    /\ AppFrame

\* a text committed in the password field: the on_change callback
\* password_entered, then the script run (the field calls the callback
\* only when its text has changed)
SubmitPassword ==
    /\ rendered \in {"prompt", "prompt and error"}
    /\ Len(submissions) < MaxSubmissions
    /\ \E pw \in PasswordTexts :
          /\ Some(pw) # password
          /\ LET after == password_entered(pw)
             IN  /\ password_correct' = after.password_correct
                 /\ password' = after.password
                 /\ rendered' = check_password(after.password_correct)
                 /\ app_mode' = IF check_password(after.password_correct) = "body"
                                THEN "Home" ELSE app_mode
          /\ submissions' = Append(submissions, pw)
    /\ UNCHANGED <<condenser_mode, zone_requirements, row_allocation,
                   dx_results, dx_widgets, dx_message, tema_type>>
    /\ AppFrame

\* the sidebar selectbox, app.py lines 96-105; the professional page
\* constructs the designer (initialize_session_state) and runs it
SelectApplication ==
    /\ rendered = "body"
    /\ \E mode \in AppModes \ {app_mode} :
          /\ app_mode' = mode
          /\ IF mode = Professional
             THEN LET cm == IF condenser_mode = "None" THEN ShellSide
                            ELSE condenser_mode
                      alloc == IF row_allocation = None THEN DefaultAllocation
                               ELSE row_allocation
                      shown == cm = TubeSide /\ zone_requirements # None
                  IN  /\ condenser_mode' = cm
                      /\ tema_type' = "BEM"
                      /\ dx_widgets' = IF shown
                                       THEN DefaultWidgets(zone_requirements)
                                       ELSE None
                      /\ row_allocation' = IF shown
                                           THEN DefaultWidgets(zone_requirements)
                                           ELSE alloc
             ELSE /\ dx_widgets' = None
                  /\ UNCHANGED <<condenser_mode, row_allocation, tema_type>>
    /\ dx_message' = ""
    /\ UNCHANGED <<auth_vars, zone_requirements, dx_results>>
    /\ AppFrame

\* the two buttons of select_configuration, lines 137-140 and 164-167,
\* each followed by st.rerun()
SelectConfiguration ==
    /\ rendered = "body"
    /\ app_mode = Professional
    /\ \E mode \in CondenserModes :
          /\ condenser_mode' = mode
          /\ LET shown == mode = TubeSide /\ zone_requirements # None
                 w == IF ~shown THEN None
                      ELSE IF condenser_mode = TubeSide /\ dx_widgets # None
                           THEN dx_widgets
                           ELSE DefaultWidgets(zone_requirements)
             IN  /\ dx_widgets' = w
                 /\ row_allocation' = IF shown THEN w ELSE row_allocation
    /\ tema_type' = "BEM"
    /\ dx_message' = ""
    /\ UNCHANGED <<auth_vars, app_mode, zone_requirements, dx_results>>
    /\ AppFrame

\* the radio of select_tema_type_tube_side, lines 310-316; the run that
\* follows stores the number inputs as the allocation, lines 643-648
SelectTemaType ==
    /\ DxPage
    /\ \E t \in DxTemaTypes \ {tema_type} : tema_type' = t
    /\ row_allocation' = IF zone_requirements # None THEN dx_widgets
                         ELSE row_allocation
    /\ dx_message' = ""
    /\ UNCHANGED <<auth_vars, app_mode, condenser_mode, zone_requirements,
                   dx_results, dx_widgets>>
    /\ AppFrame

\* "Calculate Required Rows", lines 503-507, then steps 2 and 3
PressCalculateRequirements ==
    /\ DxPage
    /\ \E req \in ZoneRequirementSets :
          /\ zone_requirements' = req
          /\ dx_widgets' = KeptWidgets(zone_requirements, req, dx_widgets)
          /\ row_allocation' = KeptWidgets(zone_requirements, req, dx_widgets)
    /\ dx_message' = MsgRequirements
    /\ UNCHANGED <<auth_vars, app_mode, condenser_mode, dx_results, tema_type>>
    /\ AppFrame

\* the same button when calculate_zone_requirements_dx raises, lines
\* 509-512: step 1 returns, steps 2 and 3 run as in any other run
CalculateRequirementsFails ==
    /\ DxPage
    /\ row_allocation' = IF zone_requirements # None THEN dx_widgets
                         ELSE row_allocation
    /\ dx_message' = MsgRequirementsError
    /\ UNCHANGED <<auth_vars, app_mode, condenser_mode, zone_requirements,
                   dx_results, dx_widgets, tema_type>>
    /\ AppFrame

\* a new value in "Total Number of Rows", lines 594-601: the three zone
\* inputs get a new max_value and show their value arguments again
EditTotalRows ==
    /\ DxPage
    /\ zone_requirements # None
    /\ \E total \in TotalRowChoices \ {dx_widgets.total_rows} :
          /\ dx_widgets' = [DefaultWidgets(zone_requirements)
                               EXCEPT !.total_rows = total]
          /\ row_allocation' = [DefaultWidgets(zone_requirements)
                                   EXCEPT !.total_rows = total]
    /\ dx_message' = ""
    /\ UNCHANGED <<auth_vars, app_mode, condenser_mode, zone_requirements,
                   dx_results, tema_type>>
    /\ AppFrame

\* a new value in one of the three zone inputs, lines 603-625, between
\* min_value 1 and max_value total_rows - 2
EditZoneRows ==
    /\ DxPage
    /\ zone_requirements # None
    /\ \E key \in ZoneKeys, rows \in ZoneRowChoices :
          /\ rows # dx_widgets[key]
          /\ rows >= 1
          /\ rows <= dx_widgets.total_rows - 2
          /\ dx_widgets' = [dx_widgets EXCEPT ![key] = rows]
          /\ row_allocation' = [dx_widgets EXCEPT ![key] = rows]
    /\ dx_message' = ""
    /\ UNCHANGED <<auth_vars, app_mode, condenser_mode, zone_requirements,
                   dx_results, tema_type>>
    /\ AppFrame

\* "Calculate with This Allocation", lines 643-661
PressCalculateWithAllocation ==
    /\ DxPage
    /\ zone_requirements # None
    /\ row_allocation' = dx_widgets
    /\ IF AllocationRefused(Remaining(dx_widgets))
       THEN /\ dx_message' = MsgAllocateAll
            /\ UNCHANGED dx_results
       ELSE /\ dx_results' =
                   calculate_dx_with_allocation(zone_requirements, dx_widgets)
            /\ dx_message' = MsgComplete
    /\ UNCHANGED <<auth_vars, app_mode, condenser_mode, zone_requirements,
                   dx_widgets, tema_type>>
    /\ AppFrame

\* "Apply This Fix", lines 764-772: step 2 has stored the number inputs as
\* the allocation earlier in the same run
PressApplyFix ==
    /\ DxPage
    /\ dx_results # None
    /\ ~dx_results.subcool_adequate
    /\ row_allocation' = ApplyFix(dx_widgets, dx_results)
    /\ dx_message' = MsgFixApplied
    /\ UNCHANGED <<auth_vars, app_mode, condenser_mode, zone_requirements,
                   dx_results, dx_widgets, tema_type>>
    /\ AppFrame

InitApp ==
    /\ NoRun
    /\ design_step = 1
    /\ segment_results = None
    /\ previous = None
    /\ UiIdle

NextApp ==
    \/ OpenApp
    \/ SubmitPassword
    \/ SelectApplication
    \/ SelectConfiguration
    \/ SelectTemaType
    \/ PressCalculateRequirements
    \/ CalculateRequirementsFails
    \/ EditTotalRows
    \/ EditZoneRows
    \/ PressCalculateWithAllocation
    \/ PressApplyFix

SpecApp == InitApp /\ [][NextApp]_vars

(***************************************************************************)
(* The integrated designer, a wizard of six steps                          *)
(* (src/modules/integrated_condenser_designer_COMPLETE.py).  An action is  *)
(* one button press or widget edit together with the script runs that it   *)
(* triggers: a handler that ends in st.rerun() is followed by the page     *)
(* function of the new design_step in the same action.  wizard_error is    *)
(* the exception that ended the last run; a run that raises shows none of  *)
(* the widgets behind the raising line.  The widgets of a step have no     *)
(* key: they show their defaults again when the step is entered.           *)
(* The module uses the name TEMAArrangementDrawings without importing it;  *)
(* globals_bound says whether the program that runs the module has bound   *)
(* the name.                                                               *)
(***************************************************************************)
WizardTubeCounts == {100, 200}
WizardTubePitch == 15

\* the keys of st.session_state.inputs, lines 203-220
StepOneKeys ==
    {"refrigerant", "m_dot_ref", "T_ref_in_superheated", "T_cond",
     "subcool_req", "glycol_type", "glycol_percent", "m_dot_water_lph",
     "T_water_in", "n_tubes", "tube_length", "tube_size", "bwg", "n_passes",
     "tube_layout", "n_segments"}

\* the keys that step 5 adds, lines 712-715
StepFiveKeys == {"tube_zones", "water_inlet_pos", "water_outlet_pos", "tema_type"}

\* the keys that step 5 and calculate_condenser_segmented read with
\* inputs[...], in the order of the reads (line 720 of the wizard, lines
\* 64-96 of segment_by_segment_model.py)
ReadKeys ==
    <<"n_segments", "refrigerant", "m_dot_ref", "T_ref_in_superheated",
      "T_ref", "delta_T_sh_sc", "n_tubes", "tube_length", "tube_od", "tube_id",
      "m_dot_water", "C_water", "T_water_in", "P_cond", "ref_props">>

\* the dictionary that a run of step 1 stores, lines 203-220
StepOneInputs(n_tubes, tube_layout) ==
    [keys |-> StepOneKeys, n_tubes |-> n_tubes, tube_layout |-> tube_layout]

\* the widgets' defaults, lines 166 and 176
DefaultInputs == StepOneInputs(200, "triangular")

\* the first key whose inputs[...] raises KeyError (None if every read
\* finds its key)
FirstMissingKey(keys) ==
    LET missing == { k \in DOMAIN ReadKeys : ReadKeys[k] \notin keys }
    IN  IF missing = {} THEN None
        ELSE <<"KeyError", ReadKeys[CHOOSE k \in missing :
                                       \A other \in missing : k <= other]>>

\* some of the keys of TEMAArrangementDrawings.TEMA_TYPES; with the zoned
\* design the type is the one of the radio of the -Z types, lines 247-268
TemaChoices(zoned) == IF zoned THEN {"AES-Z", "AEL-Z"} ELSE {"AES", "BEM"}
DefaultTema(zoned) == IF zoned THEN "AES-Z" ELSE "AES"

\* the three presets of step 3, lines 364-379 (coordinates in tenths)
WaterPresets ==
    { [inlet  |-> [x |-> 50, y |-> 5, label |-> "Bottom"],
       outlet |-> [x |-> 50, y |-> 25, label |-> "Top"]],
      [inlet  |-> [x |-> 10, y |-> 15, label |-> "Left Side"],
       outlet |-> [x |-> 90, y |-> 15, label |-> "Right Side"]],
      [inlet  |-> [x |-> 50, y |-> 25, label |-> "Top"],
       outlet |-> [x |-> 50, y |-> 5, label |-> "Bottom"]] }

can_proceed_Always(inlet, outlet) == TRUE
\* can_proceed of step 3, lines 390-391
can_proceed(inlet, outlet) == inlet # None /\ outlet # None

\* step2_tema_selection up to its buttons, lines 244-287
Step2Error == IF globals_bound THEN None
              ELSE <<"NameError", "TEMAArrangementDrawings">>

\* step4_tube_zone_assignment, lines 492-503: the sheet of the session
Step4Sheet(sheet, inp) ==
    IF sheet = None
    THEN InteractiveTubeSheet(inp.n_tubes, inp.tube_layout, WizardTubePitch)
    ELSE sheet

\* the exception of the draw of line 628, if it raises
Step4Error(fig) == IF fig[1] = "IndexError" THEN fig ELSE None

WizardFrame == UNCHANGED <<march_vars, previous, auth_vars, dx_vars,
                           globals_bound>>

\* a new value in the tube count, the layout or the zoned checkbox of
\* step 1, lines 166, 176 and 188-193; the run stores the dictionary
EditBasicInputs ==
    /\ design_step = 1
    /\ \E n \in WizardTubeCounts, layout \in TubeLayouts, zoned \in BOOLEAN :
          /\ <<StepOneInputs(n, layout), zoned>> # <<wizard_inputs, enable_zoned>>
          /\ wizard_inputs' = StepOneInputs(n, layout)
          /\ enable_zoned' = zoned
    /\ wizard_error' = None
    /\ UNCHANGED <<design_step, segment_results, sheet_vars, tema_type,
                   water_inlet_pos, water_outlet_pos, session_tube_zones>>
    /\ WizardFrame

\* "Next: Select TEMA Type", lines 225-227, then step 2
NextToTema ==
    /\ design_step = 1
    /\ design_step' = 2
    /\ wizard_error' = Step2Error
    /\ tema_type' = IF Step2Error = None THEN DefaultTema(enable_zoned)
                    ELSE tema_type
    /\ UNCHANGED <<segment_results, sheet_vars, wizard_inputs, enable_zoned,
                   water_inlet_pos, water_outlet_pos, session_tube_zones>>
    /\ WizardFrame

\* the selectbox or the radio of step 2, lines 250-278
SelectTema ==
    /\ design_step = 2
    /\ wizard_error = None
    /\ \E t \in TemaChoices(enable_zoned) \ {tema_type} : tema_type' = t
    /\ UNCHANGED <<design_step, segment_results, sheet_vars, wizard_inputs,
                   enable_zoned, water_inlet_pos, water_outlet_pos,
                   session_tube_zones, wizard_error>>
    /\ WizardFrame

\* "Back" of step 2, lines 314-316, and "Back to Fix Inputs" of step 5,
\* lines 749-751; then step 1, whose widgets show their defaults
BackToInputs ==
    /\ \/ design_step = 2 /\ wizard_error = None
       \/ design_step = 5 /\ wizard_error # None
    /\ design_step' = 1
    /\ wizard_inputs' = DefaultInputs
    /\ enable_zoned' = FALSE
    /\ wizard_error' = None
    /\ UNCHANGED <<segment_results, sheet_vars, tema_type, water_inlet_pos,
                   water_outlet_pos, session_tube_zones>>
    /\ WizardFrame

\* "Next: Water Flow Path", lines 319-321, then step 3
NextToWater ==
    /\ design_step = 2
    /\ wizard_error = None
    /\ design_step' = 3
    /\ UNCHANGED <<segment_results, sheet_vars, tema_type, wizard_inputs,
                   enable_zoned, water_inlet_pos, water_outlet_pos,
                   session_tube_zones, wizard_error>>
    /\ WizardFrame

\* one of the three preset buttons, lines 364-379
UsePreset ==
    /\ design_step = 3
    /\ \E preset \in WaterPresets :
          /\ water_inlet_pos' = preset.inlet
          /\ water_outlet_pos' = preset.outlet
    /\ UNCHANGED <<design_step, segment_results, sheet_vars, tema_type,
                   wizard_inputs, enable_zoned, session_tube_zones,
                   wizard_error>>
    /\ WizardFrame

\* "Back" of step 3, lines 385-387, and of step 4, lines 678-680
BackOneStep ==
    /\ design_step \in {3, 4}
    /\ wizard_error = None
    /\ design_step' = design_step - 1
    /\ wizard_error' = IF design_step = 3 THEN Step2Error ELSE None
    /\ tema_type' = IF design_step = 3 /\ Step2Error = None
                    THEN DefaultTema(enable_zoned) ELSE tema_type
    /\ UNCHANGED <<segment_results, sheet_vars, wizard_inputs, enable_zoned,
                   water_inlet_pos, water_outlet_pos, session_tube_zones>>
    /\ WizardFrame

\* "Next: Tube Zone Assignment", lines 390-398, then step 4, which makes
\* the sheet if the session has none and draws it
NextToZones ==
    /\ design_step = 3
    /\ can_proceed(water_inlet_pos, water_outlet_pos)
    /\ design_step' = 4
    /\ tube_sheet' = Step4Sheet(tube_sheet, wizard_inputs)
    /\ sheet_fig' = draw_tube_sheet_interactive(
                        Step4Sheet(tube_sheet, wizard_inputs), enable_zoned)
    /\ wizard_error' = Step4Error(draw_tube_sheet_interactive(
                           Step4Sheet(tube_sheet, wizard_inputs), enable_zoned))
    /\ UNCHANGED <<segment_results, tema_type, wizard_inputs, enable_zoned,
                   water_inlet_pos, water_outlet_pos, session_tube_zones>>
    /\ WizardFrame

\* an "Assign" button of the row tab of step 4, lines 534-557 (the buttons
\* come before the draw of line 628)
AssignWizardZone ==
    /\ design_step = 4
    /\ enable_zoned
    /\ \E zone \in AssignedZones, rows \in AssignedRows :
          /\ tube_sheet' = assign_zone_by_rows(tube_sheet, zone, rows[1], rows[2])
          /\ tube_sheet' # tube_sheet
    /\ sheet_fig' = draw_tube_sheet_interactive(tube_sheet', enable_zoned)
    /\ wizard_error' = Step4Error(sheet_fig')
    /\ UNCHANGED <<design_step, segment_results, tema_type, wizard_inputs,
                   enable_zoned, water_inlet_pos, water_outlet_pos,
                   session_tube_zones>>
    /\ WizardFrame

\* "Next: Calculate Performance", lines 683-692, then step 5, lines
\* 709-751: the call returns and the step advances, or an exception is
\* caught and the step stays
NextToCalculate ==
    /\ design_step = 4
    /\ wizard_error = None
    /\ session_tube_zones' = IF enable_zoned THEN tube_sheet.tube_zones ELSE None
    /\ wizard_inputs' = [wizard_inputs EXCEPT !.keys = @ \cup StepFiveKeys]
    /\ LET raised == FirstMissingKey(wizard_inputs'.keys)
       IN  /\ wizard_error' = raised
           /\ design_step' = step5_design_step(
                  IF raised = None THEN "returned" ELSE "raised", 5)
           /\ segment_results' = IF raised = None THEN Some("results")
                                 ELSE segment_results
    /\ UNCHANGED <<sheet_vars, tema_type, enable_zoned, water_inlet_pos,
                   water_outlet_pos>>
    /\ WizardFrame

\* the session after initialize_session_state (lines 30-55) and the first
\* run of step 1
InitWizard ==
    /\ NoRun
    /\ design_step = 1
    /\ segment_results = None
    /\ previous = None
    /\ SheetIdle
    /\ AuthIdle
    /\ DxIdle
    /\ wizard_inputs = DefaultInputs
    /\ tema_type = "AES"
    /\ enable_zoned = FALSE
    /\ water_inlet_pos = None
    /\ water_outlet_pos = None
    /\ session_tube_zones = None
    /\ wizard_error = None
    /\ globals_bound \in BOOLEAN

NextWizard ==
    \/ EditBasicInputs
    \/ NextToTema
    \/ SelectTema
    \/ BackToInputs
    \/ NextToWater
    \/ UsePreset
    \/ BackOneStep
    \/ NextToZones
    \/ AssignWizardZone
    \/ NextToCalculate

SpecWizard == InitWizard /\ [][NextWizard]_vars

(***************************************************************************)
(* Properties.                                                             *)
(***************************************************************************)
Returned == pc = "returned"
LoopDone == i = n_segments
Seg(k) == segments_data[k]
SegIndices == DOMAIN segments_data
AllRows(df) == DOMAIN df
ObservedPhases == { Seg(k).phase : k \in SegIndices }

C2_EnergyConservation ==
    /\ Q_cumulative = ColSum(segments_data, SegIndices, "Q_segment")
    /\ \A k \in SegIndices :
          "Q_cumulative" \in DOMAIN Seg(k) =>
              Seg(k).Q_cumulative = ColSum(segments_data, 1..k, "Q_segment")
    /\ Returned =>
          results.Q_total = ColSum(results.segments, AllRows(results.segments), "Q_segment")

C2_Witness ==
    /\ Returned
    /\ Cardinality({ k \in SegIndices : Seg(k).Q_segment > 0 }) >= 2
    /\ \E k \in SegIndices : Seg(k).Q_segment = 0

RECURSIVE WaterBefore(_)
WaterBefore(k) ==
    IF k = 1 THEN inputs.T_water_in
    ELSE IF "T_water_out" \in DOMAIN Seg(k - 1) THEN Seg(k - 1).T_water_out
    ELSE WaterBefore(k - 1)

\* C3: the water temperature is non-decreasing along the segment sequence:
\* no segment has a negative duty and no segment leaves the water colder
\* than it found it.
C3_WaterMonotonic ==
    \A k \in SegIndices :
        /\ Seg(k).Q_segment >= 0
        /\ "T_water_out" \in DOMAIN Seg(k) => Seg(k).T_water_out >= WaterBefore(k)

PhaseRank(phase) ==
    CASE phase = "superheat" -> 1
      [] phase = "two_phase" -> 2
      [] phase = "subcooled" -> 3

\* C4: along the trace the phases appear in the order superheat, two_phase,
\* subcooled: no segment's phase precedes its predecessor's phase (so each
\* phase is one contiguous block).
C4_PhaseOrder ==
    \A k \in SegIndices :
        k > 1 => PhaseRank(Seg(k).phase) >= PhaseRank(Seg(k - 1).phase)

\* C5: a two_phase segment records a quality within [0, 1]; a superheat or
\* subcooled segment records None.
C5_QualityBounded ==
    \A k \in SegIndices :
        IF Seg(k).phase = "two_phase"
        THEN /\ Len(Seg(k).quality) = 1
             /\ Seg(k).quality[1] >= 0
             /\ Seg(k).quality[1] <= 1000
        ELSE Seg(k).quality = None

C5_Witness ==
    \E k \in SegIndices :
        /\ Seg(k).phase = "two_phase"
        /\ Seg(k).quality[1] > 0
        /\ Seg(k).quality[1] < 1000
        /\ Seg(k).n_tubes_active > 0

SubcooledRows == PhaseRows(segments_data, "subcooled")

\* the analysis of the trace that the loop has left
TraceAnalysis ==
    analyze_subcool_zone(segments_data, identify_zone_boundaries(segments_data),
                         inputs.delta_T_sh_sc, T_cond, inputs)

\* actual area >= 0.95 * m_dot_ref*cp_liquid*subcool_req/(U_avg*LMTD_avg),
\* with U_avg and LMTD_avg the means over the subcooled segments
AreaReachesThreshold ==
    LET U_avg    == ColMean(segments_data, SubcooledRows, "U_local")
        LMTD_avg == ColMean(segments_data, SubcooledRows, "LMTD")
        A_actual == ColSum(segments_data, SubcooledRows, "A_segment")
        Q_req    == inputs.m_dot_ref * inputs.ref_props.cp_liquid * inputs.delta_T_sh_sc
    IN  /\ U_avg.n > 0 /\ LMTD_avg.n > 0
        /\ U_avg.sum * LMTD_avg.sum > 0
        /\ A_actual * U_avg.sum * LMTD_avg.sum * 100
               >= AdequacyPercent * Q_req * U_avg.n * LMTD_avg.n

\* C6: when a subcooled zone exists, the analysis reports adequate exactly
\* when the actual subcool area is at least 0.95 times the required area
\* m_dot_ref*cp_liquid*subcool_req/(U_avg*LMTD_avg).
C6_AdequacyThreshold ==
    (Returned /\ SubcooledRows # {}) =>
        (results.subcool_analysis.adequate <=> AreaReachesThreshold)

\* C7: a segment with zero active tubes records zero duty and leaves T_ref
\* (and with it h_ref and T_water) as the next segment finds it, and the run
\* does not raise for it: no run ends in the KeyError of a missing column.
C7_ZeroTubesNoError ==
    /\ \A k \in SegIndices :
          Seg(k).n_tubes_active = 0 =>
              /\ Seg(k).Q_segment = 0
              /\ k < Len(segments_data) => Seg(k + 1).T_ref = Seg(k).T_ref
              /\ k = Len(segments_data) => T_ref = Seg(k).T_ref
    /\ ~(pc = "raised" /\ error[1] = "KeyError")

\* C8: if no segment is classified subcooled, the analysis reports
\* adequate = false, its only warning is the CRITICAL no-subcooled-zone
\* message, its recommendations are the four fixed entries, and it carries
\* neither area figures nor a pinch warning.
C8_MissingSubcoolZone ==
    (LoopDone /\ SubcooledRows = {}) =>
        /\ TraceAnalysis.adequate = FALSE
        /\ Len(TraceAnalysis.warnings) = 1
        /\ TraceAnalysis.warnings[1].msg =
              "CRITICAL: No subcooled zone detected! Refrigerant exits as saturated liquid or two-phase."
        /\ Len(TraceAnalysis.recommendations) = 4
        /\ \A r \in 1..Len(TraceAnalysis.recommendations) :
              TraceAnalysis.recommendations[r].args = << >>
        /\ TraceAnalysis.recommendations[1].msg = "1. Increase total tube length by 20-30%"
        /\ TraceAnalysis.recommendations[4].msg = "4. Increase water flow rate"
        /\ DOMAIN TraceAnalysis = {"adequate", "warnings", "recommendations"}
        /\ Returned => results.subcool_analysis = TraceAnalysis

C8_Witness ==
    /\ Returned
    /\ SubcooledRows = {}
    /\ "two_phase" \in ObservedPhases

\* C9: whenever the result reports subcool_adequate = false, its
\* subcool_analysis carries a non-empty recommendation list.
C9_InadequateHasRecommendations ==
    (Returned /\ ~results.subcool_adequate) =>
        Len(results.subcool_analysis.recommendations) > 0

RECURSIVE SumOverPhases(_, _, _)
SumOverPhases(zones, field, j) ==
    IF j = 0 THEN 0
    ELSE SumOverPhases(zones, field, j - 1)
         + (IF Phases[j] \in DOMAIN zones THEN zones[Phases[j]][field] ELSE 0)

\* C10: the zones partition the trace: the zone duties sum to the total
\* duty, the zone segment counts sum to N, and the zone lengths sum to the
\* tube length.
C10_ZonesPartitionTrace ==
    Returned =>
        /\ DOMAIN results.zone_summaries = DOMAIN results.zone_boundaries
        /\ DOMAIN results.zone_boundaries = ObservedPhases
        /\ SumOverPhases(results.zone_summaries, "Q_total", 3) = results.Q_total
        /\ SumOverPhases(results.zone_boundaries, "n_segments", 3) = n_segments
        /\ SumOverPhases(results.zone_boundaries, "length_m", 3)
              = inputs.tube_length * LengthDen(n_segments)

C10_Witness ==
    /\ Returned
    /\ ObservedPhases = {"superheat", "two_phase", "subcooled"}
    /\ \E k \in SegIndices : Seg(k).n_tubes_active = 0

\* the invariants of a design input: N >= 2, all flow rates > 0, inner
\* diameter < outer diameter
DesignInputValid ==
    /\ n_segments >= 2
    /\ inputs.m_dot_ref > 0
    /\ inputs.m_dot_water > 0
    /\ inputs.tube_id < inputs.tube_od

\* C11: a run whose input violates N >= 2, flow rates > 0 or inner diameter
\* < outer diameter processes no segment and returns no result; when it has
\* ended, it has ended with an InvalidInputError.
C11_InvalidInputRejected ==
    ~DesignInputValid =>
        /\ segments_data = << >>
        /\ results = None
        /\ pc # "march" => (pc = "raised" /\ error[1] = "InvalidInputError")

TubesAssigned ==
    IF HasTubeZones(inputs) THEN Cardinality(DOMAIN inputs.tube_zones) ELSE 0

\* C12: a run whose allocation assigns more tubes than n_tubes processes no
\* segment and ends with an AllocationInconsistencyError, and no segment of
\* any run records more active tubes than n_tubes.
C12_AllocationChecked ==
    /\ TubesAssigned > inputs.n_tubes =>
          /\ segments_data = << >>
          /\ results = None
          /\ pc # "march" =>
                (pc = "raised" /\ error[1] = "AllocationInconsistencyError")
    /\ \A k \in SegIndices : Seg(k).n_tubes_active <= inputs.n_tubes

LookupFailed == pc = "raised" /\ error[1] = "PropertyLookup"

\* the results that the caller held when the current run began
StoredBefore == IF previous = None THEN None ELSE previous[1].results

\* C13: when a property lookup has failed, at entry or in any segment, the
\* method has returned nothing, the segments and zone_boundaries of the
\* model are as __init__ left them, the caller's segment_results is what it
\* was before the run and design_step has not advanced to 6.
C13_LookupFailureAborts ==
    LookupFailed =>
        /\ results = None
        /\ self_segments = << >>
        /\ self_zone_boundaries = << >>
        /\ segment_results = StoredBefore
        /\ design_step = 5

C13_Witness ==
    /\ LookupFailed
    /\ Len(segments_data) >= 2
    /\ previous # None
    /\ segment_results # None

\* no step writes the model instance, and no step of a run writes inputs
InstanceAndInputsKept ==
    /\ n_segments' = n_segments
    /\ self_segments' = self_segments
    /\ self_zone_boundaries' = self_zone_boundaries
    /\ pc = "march" => inputs' = inputs

\* a run starts from its inputs alone and holds no segment of another run
RunStartsFresh ==
    /\ Len(segments_data) = i
    /\ (pc = "march" /\ i = 0) =>
          /\ T_ref = inputs.T_ref_in_superheated
          /\ T_water = inputs.T_water_in
          /\ Q_cumulative = 0
          /\ current_zone = "None"
          /\ zone_start_indices = << >>

\* a run with the inputs of the run before returns what that run returned
RunsAgree ==
    (Returned /\ previous # None /\ previous[1].inputs = inputs) =>
        results = previous[1].results

\* C14: a run writes neither its inputs nor the model instance
\* (n_segments, segments, zone_boundaries stay as constructed); every run
\* of a sequence of runs on the instance starts from its own inputs with an
\* empty trace, and a run with the same inputs as the run before it
\* returns the same results.
C14_RunIndependence ==
    /\ [][InstanceAndInputsKept]_vars
    /\ [](RunStartsFresh /\ RunsAgree)
    /\ [](self_segments = << >> /\ self_zone_boundaries = << >>)

C14_Witness ==
    /\ Returned
    /\ previous # None
    /\ previous[1].inputs = inputs
    /\ results.Q_total > 0
    /\ Len(results.segments) >= 2

ZoneOfPhase(phase) ==
    CASE phase = "superheat" -> "desuperheat"
      [] phase = "two_phase" -> "condense"
      [] phase = "subcooled" -> "subcool"

TubesInZone(zone) ==
    Cardinality({ t \in DOMAIN inputs.tube_zones : inputs.tube_zones[t] = zone })

\* C15: without an allocation (no tube_zones key, or None) every segment
\* records n_tubes_active = n_tubes; with an allocation a segment records
\* the number of tubes assigned to the zone of its phase
\* (superheat -> desuperheat, two_phase -> condense, subcooled -> subcool),
\* so that a tube of another zone is never counted.
C15_ActiveTubeQuery ==
    \A k \in SegIndices :
        IF "tube_zones" \in DOMAIN inputs /\ inputs.tube_zones # None
        THEN Seg(k).n_tubes_active = TubesInZone(ZoneOfPhase(Seg(k).phase))
        ELSE Seg(k).n_tubes_active = inputs.n_tubes

C15_Witness ==
    /\ Returned
    /\ HasTubeZones(inputs)
    /\ "superheat" \in ObservedPhases
    /\ "two_phase" \in ObservedPhases
    /\ \E k \in SegIndices :
          /\ Seg(k).n_tubes_active > 0
          /\ Seg(k).n_tubes_active < Cardinality(DOMAIN inputs.tube_zones)

RECURSIVE EnthalpyBefore(_)
EnthalpyBefore(k) ==
    IF k = 1 THEN get_enthalpy(props, "vapor")
    ELSE IF "h_ref" \in DOMAIN Seg(k - 1) THEN Seg(k - 1).h_ref
    ELSE EnthalpyBefore(k - 1)

\* C16: with h the enthalpy at the entry of a segment, the segment is
\* superheat iff h > h_g - 100 J/kg, subcooled iff h < h_f + 100 J/kg, and
\* two_phase otherwise (also at h = h_f + 100 and h = h_g - 100), whatever
\* the temperature T_ref.
C16_PhaseByEnthalpy ==
    \A k \in SegIndices :
        LET h == EnthalpyBefore(k)
        IN  /\ Seg(k).phase = "superheat" <=> h > h_g - EnthalpyMargin
            /\ Seg(k).phase = "subcooled" <=> h < h_f + EnthalpyMargin
            /\ Seg(k).phase = "two_phase" <=>
                   (h <= h_g - EnthalpyMargin /\ h >= h_f + EnthalpyMargin)

ActiveSegments == { k \in SegIndices : Seg(k).n_tubes_active # 0 }

\* C17: a two_phase segment leaves the refrigerant temperature as it found
\* it (T_ref_out = T_ref) and lowers the enthalpy by Q_segment/m_dot_ref; a
\* single-phase segment lowers the temperature by Q_segment/(m_dot_ref*cp)
\* and the enthalpy by Q_segment/m_dot_ref.
C17_StateUpdate ==
    \A k \in ActiveSegments :
        /\ Seg(k).h_ref =
              EnthalpyBefore(k) - (Seg(k).Q_segment \div inputs.m_dot_ref)
        /\ IF Seg(k).phase = "two_phase"
           THEN Seg(k).T_ref_out = Seg(k).T_ref
           ELSE Seg(k).T_ref_out =
                   Seg(k).T_ref - (Seg(k).Q_segment \div
                       (inputs.m_dot_ref * LocalCp(props, Seg(k).phase)))

HasPinchWarning(analysis) ==
    \E w \in 1..Len(analysis.warnings) :
        analysis.warnings[w].msg = PinchWarning(0).msg

FirstSubcooled == SetMin(SubcooledRows)

\* C18: when a subcooled zone exists, the analysis carries the THERMAL
\* PINCH warning exactly when T_cond minus the water temperature at the
\* entry of the first subcooled segment is below 3 degrees, whether the
\* area check reported adequate or not.
C18_ThermalPinch ==
    (Returned /\ SubcooledRows # {}) =>
        (HasPinchWarning(results.subcool_analysis)
            <=> T_cond - WaterBefore(FirstSubcooled) < PinchApproach)

InadequateArea ==
    Returned /\ SubcooledRows # {} /\ ~results.subcool_analysis.adequate

\* the deficit (A_required - A_actual)/A_required of the returned analysis,
\* in percent, as numerator and denominator
DeficitPercent ==
    LET a == results.subcool_analysis
    IN  [num |-> (a.A_subcool_required.num
                     - a.A_subcool_actual * a.A_subcool_required.den) * 100,
         den |-> a.A_subcool_required.num]

TierHeadings ==
    [SEVERE   |-> "SEVERE DEFICIT - Major changes needed:",
     MODERATE |-> "MODERATE DEFICIT - Changes recommended:",
     MINOR    |-> "MINOR DEFICIT - Optimization options:"]

Headings(recs) ==
    { r \in 1..Len(recs) :
          \E t \in DOMAIN TierHeadings : recs[r].msg = TierHeadings[t] }

LengthSuggestions(recs) ==
    { r \in 1..Len(recs) :
          recs[r].msg \in {"2. OR increase tube length by {}%",
                           "1. Increase tube length by {}%"} }

AreaWarnings(warnings) ==
    { w \in 1..Len(warnings) : warnings[w].msg = AreaWarning(0, [num |-> 0, den |-> 1]).msg }

PopulatedFields ==
    {"h_tube", "h_shell", "U_local", "A_segment", "LMTD", "Q_segment",
     "T_ref_out", "T_water_out", "Q_cumulative"}

RECURSIVE DutyUpTo(_)
DutyUpTo(k) ==
    IF k = 0 THEN 0
    ELSE DutyUpTo(k - 1) + segments_data[k].Q_segment

\* C20: every appended segment, a segment with zero active tubes included,
\* carries both coefficients, the conductance, the area, the LMTD, the duty,
\* both outlet temperatures and the cumulative duty up to and including it;
\* a zero-active-tube segment has zero duty, coefficients and area.
C20_SegmentsPopulated ==
    \A k \in 1..Len(segments_data) :
        LET row == segments_data[k]
        IN  /\ PopulatedFields \subseteq DOMAIN row
            /\ row.Q_cumulative = DutyUpTo(k)
            /\ row.n_tubes_active = 0 =>
                   /\ row.Q_segment = 0
                   /\ row.h_tube = 0
                   /\ row.h_shell = 0
                   /\ row.U_local = 0
                   /\ row.A_segment = 0

\* C26: the two adequacy verdicts of a returned result agree:
\* subcool_adequate (achieved subcooling >= 0.95 x target) is true exactly
\* when subcool_analysis.adequate (subcool area >= 0.95 x required area) is.
C26_VerdictsAgree ==
    Returned => (results.subcool_adequate <=> results.subcool_analysis.adequate)

\* C27: heat never flows against the temperature gradient: a segment has
\* positive duty only if the refrigerant temperature at its inlet exceeds
\* the water temperature at its inlet.
C27_NoHeatAgainstGradient ==
    \A k \in SegIndices :
        (Seg(k).n_tubes_active # 0 /\ Seg(k).Q_segment > 0) =>
            Seg(k).T_ref > WaterBefore(k)

\* C28: a segment with zero active tubes is absorbing: every later segment
\* has the same phase, zero active tubes and zero duty, and T_ref, h_ref,
\* T_water and the cumulative duty, during the rest of the march and in the
\* returned result, are the values at the inlet of that segment.
C28_ZeroTubesAbsorbing ==
    \A k \in SegIndices :
        Seg(k).n_tubes_active = 0 =>
            /\ \A j \in SegIndices :
                   j > k => /\ Seg(j).phase = Seg(k).phase
                            /\ Seg(j).n_tubes_active = 0
                            /\ Seg(j).Q_segment = 0
                            /\ Seg(j).T_ref = Seg(k).T_ref
            /\ T_ref = Seg(k).T_ref
            /\ h_ref = EnthalpyBefore(k)
            /\ T_water = WaterBefore(k)
            /\ Q_cumulative = DutyUpTo(k - 1)
            /\ Returned =>
                   /\ results.T_ref_out = Seg(k).T_ref
                   /\ results.T_water_out = WaterBefore(k)
                   /\ results.Q_total = DutyUpTo(k - 1)

C28_Witness ==
    /\ Returned
    /\ Seg(1).n_tubes_active # 0
    /\ Seg(1).Q_segment > 0
    /\ \E k \in SegIndices :
           /\ 1 < k
           /\ k < n_segments
           /\ Seg(k).n_tubes_active = 0

\* C21: the tube sheet has one position for each tube: for every accepted
\* n_tubes and both layouts tube_positions has exactly n_tubes rows, so every
\* key 0..n_tubes-1 of tube_zones indexes an existing position.
C21_OnePositionPerTube ==
    tube_sheet # None =>
        /\ Len(tube_sheet.tube_positions) = tube_sheet.n_tubes
        /\ \A t \in DOMAIN tube_sheet.tube_zones :
               t + 1 \in DOMAIN tube_sheet.tube_positions

\* C22: the results of the DX calculation are written only by a run in
\* which the requirements exist and the three zone row counts add up to
\* the total, and they are the results for the allocation of that run; a
\* Calculate press that is refused leaves the results as they were.
C22_AllocationGate ==
    [][ /\ dx_results' # dx_results =>
              /\ dx_message' = MsgComplete
              /\ zone_requirements' # None
              /\ Allocated(row_allocation') = row_allocation'.total_rows
              /\ dx_results'.zones.desuperheat = row_allocation'.desuperheat_rows
              /\ dx_results'.zones.condensing = row_allocation'.condensing_rows
              /\ dx_results'.zones.subcooling = row_allocation'.subcooling_rows
        /\ dx_message' = MsgAllocateAll => dx_results' = dx_results ]_vars

\* a Calculate press with rows over-allocated, refused after an earlier
\* calculation: the earlier results are still there
C22_Witness ==
    /\ dx_results # None
    /\ dx_message = MsgAllocateAll
    /\ Remaining(row_allocation) < 0
    /\ Allocated(row_allocation) #
           dx_results.zones.desuperheat + dx_results.zones.condensing
               + dx_results.zones.subcooling

\* C23: after "Apply This Fix" the session's allocation has the needed
\* subcooling rows, the condensing rows reduced by the rows added, the
\* total kept and allocated with at least one row in every zone, and the
\* Calculate press that follows computes with this allocation.
C23_FixTakesEffect ==
    /\ [](dx_message = MsgFixApplied =>
              /\ row_allocation.subcooling_rows = dx_results.subcool_rows_needed
              /\ Allocated(row_allocation) = Allocated(dx_widgets)
              /\ row_allocation.total_rows = dx_widgets.total_rows
              /\ \A key \in ZoneKeys : row_allocation[key] >= 1)
    /\ [][ (dx_message = MsgFixApplied
                /\ dx_message' \in {MsgComplete, MsgAllocateAll})
            => row_allocation' = row_allocation ]_vars

\* C25: the body of the application is shown only while password_correct
\* is True; it becomes True only by a submission of the configured
\* password, which shows the body and removes the "password" key; any
\* other submission leaves access denied and shows the prompt again, and
\* a correct submission after it still grants access.
C25_PasswordGate ==
    /\ [](rendered = "body" => password_correct = Some(TRUE))
    /\ [][ (password_correct' = Some(TRUE) /\ password_correct # Some(TRUE))
            => /\ Len(submissions') = Len(submissions) + 1
               /\ submissions'[Len(submissions')] = ConfiguredPassword
               /\ password' = None
               /\ rendered' = "body" ]_vars
    /\ [][ (Len(submissions') = Len(submissions) + 1
                /\ submissions'[Len(submissions')] # ConfiguredPassword)
            => /\ password_correct' = Some(FALSE)
               /\ rendered' = "prompt and error" ]_vars
    /\ [][ (Len(submissions') = Len(submissions) + 1
                /\ submissions'[Len(submissions')] = ConfiguredPassword)
            => /\ password_correct' = Some(TRUE)
               /\ password' = None
               /\ rendered' = "body" ]_vars

\* access granted by a correct submission that follows a wrong one
C25_Witness ==
    /\ Len(submissions) >= 2
    /\ submissions[Len(submissions) - 1] # ConfiguredPassword
    /\ submissions[Len(submissions)] = ConfiguredPassword
    /\ password_correct = Some(TRUE)
    /\ password = None
    /\ rendered = "body"

\* C24: the wizard's design_step is always one of 1..6, and the session is
\* at step 4 (zone assignment) or step 5 (calculation) only with both the
\* water inlet and the water outlet position set.
C24_StepGuard ==
    /\ design_step \in 1..6
    /\ design_step \in {4, 5} =>
           (water_inlet_pos # None /\ water_outlet_pos # None)

\* the calculation step entered, with both positions set, after the
\* wizard has gone forward through steps 2, 3 and 4
C24_Witness ==
    /\ design_step = 5
    /\ water_inlet_pos # None
    /\ water_outlet_pos # None
    /\ tube_sheet # None
    /\ "water_inlet_pos" \in wizard_inputs.keys

\* C29: the wizard completes: the press of Next at step 4 runs the
\* calculation of step 5, which finds every key that it reads in the
\* dictionary that the wizard has assembled, and ends at step 6 with
\* segment_results set.
C29_WizardCompletes ==
    [][ (design_step = 4 /\ design_step' \notin {3, 4})
        => /\ FirstMissingKey(wizard_inputs'.keys) = None
           /\ design_step' = 6
           /\ segment_results' # None ]_vars

====
